---- MODULE Spec2Model ----
(***************************************************************************)
(* Model of the column standardization pipeline:                           *)
(*   source_code/agents/agents.py  preprocess_column_names and             *)
(*                                 field_standardization_agent             *)
(*   source_code/graph.py          the cleaner -> executor -> END wiring   *)
(*   source_code/state.py          the AgentState schema                   *)
(*                                                                         *)
(* A Python str holding a column name is a sequence of one-character       *)
(* strings.  A column name offered to the pre-processor is drawn           *)
(* from all sequences over Alphabet up to MaxLen characters.               *)
(***************************************************************************)
EXTENDS Integers, Sequences, FiniteSets, TLC

VARIABLES
    state,            \* the dict handed to field_standardization_agent
    pc,               \* position inside field_standardization_agent
    pre_cleaned,      \* agents.py:125, an insertion-ordered dict (sequence of <<key, value>>)
    cleaned_cols,     \* agents.py:126
    model_blocks,     \* the fenced blocks the model wrote, each <<language hint, text>>
    raw_response,     \* agents.py:210, the model's text as a token sequence
    code_blocks,      \* agents.py:213-214
    rename_code,      \* agents.py:220
    ambiguous_code,   \* agents.py:221
    ambiguous_fields, \* agents.py:224-231
    column_map,       \* agents.py:234-242
    result,           \* the value the agent returns
    node,             \* graph.py: the node the compiled graph is at
    graph_state,      \* the AgentState channels of the graph after the latest merge
    cleaner_runs,     \* how many times the cleaner node was started
    executor_runs     \* how many times the executor node was started

vars == <<state, pc, pre_cleaned, cleaned_cols, model_blocks, raw_response, code_blocks,
          rename_code, ambiguous_code, ambiguous_fields, column_map, result,
          node, graph_state, cleaner_runs, executor_runs>>

(***************************************************************************)
(* Bounds                                                                  *)
(***************************************************************************)
MaxLen == 5

MaxCols == 3

MaxBlocks == 2

(***************************************************************************)
(* Characters and Python str methods used by preprocess_column_names       *)
(***************************************************************************)
LowerLetters == {"a", "b", "c", "t"}

UpperLetters == {"A", "B", "C", "T"}

Letters == LowerLetters \cup UpperLetters

WordChars == Letters \cup {"_"}

Alphabet == {"a", "B", "_", ".", " ", "1"}

IsSpace(ch) == ch = " "

LowerChar(ch) ==
    CASE ch = "A" -> "a"
      [] ch = "B" -> "b"
      [] ch = "C" -> "c"
      [] ch = "T" -> "t"
      [] OTHER -> ch

\* str.lower()
Lower(s) == [i \in 1..Len(s) |-> LowerChar(s[i])]

Drop(s, n) == SubSeq(s, n + 1, Len(s))

RECURSIVE LStrip(_)
LStrip(s) == IF s /= <<>> /\ IsSpace(Head(s)) THEN LStrip(Tail(s)) ELSE s

RECURSIVE RStrip(_)
RStrip(s) ==
    IF s /= <<>> /\ IsSpace(s[Len(s)]) THEN RStrip(SubSeq(s, 1, Len(s) - 1)) ELSE s

\* str.strip()
Strip(s) == RStrip(LStrip(s))

\* re.sub(r'^[a-zA-Z]\.', '', c)
SubLetterDot(c) ==
    IF Len(c) >= 2 /\ c[1] \in Letters /\ c[2] = "." THEN Drop(c, 2) ELSE c

\* length of the longest prefix of c made of [a-zA-Z_]
RECURSIVE WordRun(_)
WordRun(c) == IF c /= <<>> /\ Head(c) \in WordChars THEN 1 + WordRun(Tail(c)) ELSE 0

\* re.sub(r'^[a-zA-Z_]+\.', '', c): the greedy run must be followed by a dot
SubWordDot(c) ==
    LET n == WordRun(c)
    IN IF n >= 1 /\ Len(c) > n /\ c[n + 1] = "." THEN Drop(c, n + 1) ELSE c

\* agents.py:108-111, the body of the loop for one column
CleanName(col) == Lower(Strip(SubWordDot(SubLetterDot(Strip(col)))))

(***************************************************************************)
(* Python dict as an insertion-ordered sequence of <<key, value>> pairs    *)
(***************************************************************************)
DictKeys(d) == [i \in 1..Len(d) |-> d[i][1]]

DictValues(d) == [i \in 1..Len(d) |-> d[i][2]]

HasKey(d, k) == \E i \in 1..Len(d) : d[i][1] = k

\* d[k] = v: a present key keeps its position, a new key is appended
DictSetAlwaysAppend(d, k, v) == Append(d, <<k, v>>)

DictSet(d, k, v) ==
    IF HasKey(d, k)
    THEN [i \in 1..Len(d) |-> IF d[i][1] = k THEN <<k, v>> ELSE d[i]]
    ELSE Append(d, <<k, v>>)

\* agents.py:105-113
RECURSIVE PreprocessFrom(_, _)
PreprocessFrom(cleaned, columns) ==
    IF columns = <<>> THEN cleaned
    ELSE PreprocessFrom(DictSet(cleaned, Head(columns), CleanName(Head(columns))),
                        Tail(columns))

preprocess_column_names(columns) == PreprocessFrom(<<>>, columns)

(***************************************************************************)
(* Python values met while evaluating the model's code blocks.  Every      *)
(* value is a record [kind, val]; val is always a sequence.  A str other   *)
(* than a column name is a sequence of chunks ("unknown_" is one chunk).   *)
(***************************************************************************)
Str(chunks) == [kind |-> "str", val |-> chunks]

IntOne == [kind |-> "int", val |-> <<"1">>]

Dict(pairs) == [kind |-> "dict", val |-> pairs]

List(items) == [kind |-> "list", val |-> items]

EmptyDict == Dict(<<>>)

EmptyList == List(<<>>)

\* bool(v) for the kinds above
Truthy(v) == IF v.kind = "int" THEN v.val /= <<"0">> ELSE v.val /= <<>>

ColA == <<"t", ".", "a">>

ColB == <<"b">>

\* rename_map literals a response may carry
M_RAW == Dict(<< <<ColA, Str(<<"A">>)>>, <<ColB, Str(<<"unknown_", "b">>)>> >>)

M_DUP == Dict(<< <<ColA, Str(<<"X">>)>>, <<ColB, Str(<<"X">>)>> >>)

M_CLEAN == Dict(<< <<CleanName(ColA), Str(<<"A">>)>>, <<CleanName(ColB), Str(<<"ambiguous_", "b">>)>> >>)

M_INT == Dict(<< <<ColA, IntOne>> >>)

\* ambiguous_fields literals a response may carry
FieldRecord ==
    Dict(<< << <<"original_column">>, Str(ColB) >>,
            << <<"candidates">>, List(<<Str(<<"B1">>), Str(<<"B2">>)>>) >>,
            << <<"reason">>, Str(<<"two meanings">>) >>,
            << <<"sample_values">>, Str(<<"1, 2">>) >> >>)

AF_FULL == List(<<FieldRecord>>)

AF_EMPTY == EmptyList

AF_STRS == List(<<Str(ColB)>>)

(***************************************************************************)
(* The model's text, as tokens.  Fence is the three-backtick delimiter,    *)
(* "python" and "sql" are words that may follow it, " " is whitespace (a   *)
(* newline included), the rest are whole statements.                       *)
(***************************************************************************)
Fence == "<fence>"

RenameCall == "df = df.rename"

\* what a statement binds: <<variable, value>>, or <<>> for a non-assignment
Binding(tok) ==
    CASE tok = "rename_map=M_RAW" -> <<"rename_map", M_RAW>>
      [] tok = "rename_map=M_DUP" -> <<"rename_map", M_DUP>>
      [] tok = "rename_map=M_CLEAN" -> <<"rename_map", M_CLEAN>>
      [] tok = "rename_map=M_INT" -> <<"rename_map", M_INT>>
      [] tok = "ambiguous_fields=AF_FULL" -> <<"ambiguous_fields", AF_FULL>>
      [] tok = "ambiguous_fields=AF_EMPTY" -> <<"ambiguous_fields", AF_EMPTY>>
      [] tok = "ambiguous_fields=AF_STRS" -> <<"ambiguous_fields", AF_STRS>>
      [] OTHER -> <<>>

BlockTexts ==
    { <<" ">>,
      <<" ", "rename_map=M_RAW", " ", RenameCall, " ">>,
      <<"rename_map=M_DUP", " ", RenameCall>>,
      <<"rename_map=M_CLEAN", " ", RenameCall>>,
      <<"rename_map=M_INT", " ", RenameCall>>,
      <<"syntax_error">>,
      <<"raise SystemExit">>,
      <<" ", "ambiguous_fields=AF_FULL", " ">>,
      <<"ambiguous_fields=AF_EMPTY">>,
      <<"ambiguous_fields=AF_STRS">> }

Hints == { <<>>, <<"python">>, <<"sql">> }

\* one fenced block as the model writes it
FencedBlock(hint, text) == <<Fence>> \o hint \o text \o <<Fence>>

RECURSIVE Concat(_)
Concat(ss) == IF ss = <<>> THEN <<>> ELSE Head(ss) \o Concat(Tail(ss))

BlockLists ==
    UNION { [1..n -> Hints \X BlockTexts] : n \in 0..MaxBlocks }

\* a response: fenced blocks, bare or with prose around them and an unclosed fence at the end
Render(blocks, framed) ==
    LET body == Concat([i \in 1..Len(blocks) |->
                    (IF framed THEN <<"prose", " ">> ELSE <<>>)
                    \o FencedBlock(blocks[i][1], blocks[i][2])])
    IN IF framed THEN body \o <<"prose", Fence, "python", "rename_map=M_RAW">> ELSE body

Responses == { Render(b, f) : b \in BlockLists, f \in BOOLEAN }

(***************************************************************************)
(* agents.py:213  re.findall over FENCE(?:python)?(.*?)FENCE with DOTALL   *)
(***************************************************************************)
\* index of the first fence at or after position i, 0 when there is none
RECURSIVE NextFence(_, _)
NextFence(text, i) ==
    IF i > Len(text) THEN 0
    ELSE IF text[i] = Fence THEN i ELSE NextFence(text, i + 1)

\* variant: the word python after the opening fence is not skipped
RECURSIVE FindAllFromKeepsTag(_, _)
FindAllFromKeepsTag(text, i) ==
    LET open == NextFence(text, i)
        close == IF open = 0 THEN 0 ELSE NextFence(text, open + 1)
    IN IF open = 0 \/ close = 0 THEN <<>>
       ELSE <<SubSeq(text, open + 1, close - 1)>> \o FindAllFromKeepsTag(text, close + 1)

RECURSIVE FindAllFrom(_, _)
FindAllFrom(text, i) ==
    LET open == NextFence(text, i)
        from == IF open > 0 /\ open < Len(text) /\ text[open + 1] = "python"
                THEN open + 2 ELSE open + 1
        close == IF open = 0 THEN 0 ELSE NextFence(text, from)
    IN IF open = 0 \/ close = 0 THEN <<>>
       ELSE <<SubSeq(text, from, close - 1)>> \o FindAllFrom(text, close + 1)

FindAll(text) == FindAllFrom(text, 1)

\* agents.py:214  [block.strip() for block in code_blocks if block.strip()]
RECURSIVE StripNonEmpty(_)
StripNonEmpty(blocks) ==
    IF blocks = <<>> THEN <<>>
    ELSE IF Strip(Head(blocks)) /= <<>>
         THEN <<Strip(Head(blocks))>> \o StripNonEmpty(Tail(blocks))
         ELSE StripNonEmpty(Tail(blocks))

ParseCodeBlocks(text) == StripNonEmpty(FindAll(text))

(***************************************************************************)
(* exec(code, {}, local_ns): the outcome is "ok" with the bindings made,   *)
(* "exception" (an Exception subclass: SyntaxError, NameError, ...) or     *)
(* "base_exception" (SystemExit, which except Exception lets through  ).   *)
(***************************************************************************)
EmptyNs == [rename_map |-> <<>>, ambiguous_fields |-> <<>>]

RECURSIVE RunFrom(_, _)
RunFrom(code, ns) ==
    IF code = <<>> THEN [status |-> "ok", ns |-> ns]
    ELSE LET tok == Head(code) IN
         CASE tok = " " -> RunFrom(Tail(code), ns)
           [] tok = "raise SystemExit" -> [status |-> "base_exception", ns |-> ns]
           [] Binding(tok) /= <<>> ->
                RunFrom(Tail(code), [ns EXCEPT ![Binding(tok)[1]] = <<Binding(tok)[2]>>])
           [] OTHER -> [status |-> "exception", ns |-> ns]

\* the whole text is compiled before anything runs
Exec(code) ==
    IF \E i \in 1..Len(code) : code[i] = "syntax_error"
    THEN [status |-> "exception", ns |-> EmptyNs]
    ELSE RunFrom(code, EmptyNs)

\* local_ns.get(name, default)
NsGet(ns, name, default) == IF ns[name] = <<>> THEN default ELSE ns[name][1]

\* variant: the rename code is evaluated whole, the rename call included
BeforeRenameCallWholeCode(code) == code

\* agents.py:237  rename_code.split("df = df.rename")[0]
RECURSIVE BeforeRenameCall(_)
BeforeRenameCall(code) ==
    IF code = <<>> \/ Head(code) = RenameCall THEN <<>>
    ELSE <<Head(code)>> \o BeforeRenameCall(Tail(code))

(***************************************************************************)
(* agents.py:223-242, the two guarded evaluations                          *)
(***************************************************************************)
\* agents.py:224-231: <<raised, ambiguous_fields>>
EvalAmbiguous(code) ==
    IF code = <<>> THEN <<FALSE, EmptyList>>
    ELSE LET out == Exec(code) IN
         CASE out.status = "ok" -> <<FALSE, NsGet(out.ns, "ambiguous_fields", EmptyList)>>
           [] out.status = "exception" -> <<FALSE, EmptyList>>
           [] OTHER -> <<TRUE, EmptyList>>

\* agents.py:234-242: <<raised, column_map>>
EvalRenameMap(code) ==
    IF code = <<>> THEN <<FALSE, EmptyDict>>
    ELSE LET out == Exec(BeforeRenameCall(code)) IN
         CASE out.status = "ok" -> <<FALSE, NsGet(out.ns, "rename_map", EmptyDict)>>
           [] out.status = "exception" -> <<FALSE, EmptyDict>>
           [] OTHER -> <<TRUE, EmptyDict>>

(***************************************************************************)
(* agents.py:244-261, the reporting step: it prints, and it raises where   *)
(* a value has no .get, no .items or no .startswith                        *)
(***************************************************************************)
\* agents.py:245-251
AmbiguousReportRaises(af) ==
    /\ Truthy(af)
    /\ \/ af.kind \notin {"list", "dict", "str"}
       \/ af.kind \in {"dict", "str"}
       \/ \E i \in 1..Len(af.val) : af.val[i].kind /= "dict"

\* agents.py:253 and 259
MapReportRaises(cm) ==
    \/ cm.kind /= "dict"
    \/ \E i \in 1..Len(cm.val) : cm.val[i][2].kind /= "str"

ReportRaises(af, cm) == AmbiguousReportRaises(af) \/ MapReportRaises(cm)

(***************************************************************************)
(* Pipeline state (state.py) and the inputs of a run                       *)
(***************************************************************************)
AgentStateKeys ==
    {"file_path", "target_column", "metadata_summary", "cleaning_code",
     "iteration_count", "error_log"}

ResultKeys == {"cleaning_code", "ambiguous_fields", "column_map"}

FreshState ==
    [file_path |-> "data.csv", target_column |-> "churn",
     metadata_summary |-> "profile", cleaning_code |-> <<"stale">>,
     iteration_count |-> 0, error_log |-> ""]

RetriedState ==
    [FreshState EXCEPT !.iteration_count = 2, !.error_log = "previous failure"]

WithColumns(st, cols) ==
    [k \in DOMAIN st \cup {"df_columns"} |-> IF k = "df_columns" THEN cols ELSE st[k]]

InputStates ==
    { FreshState, WithColumns(FreshState, <<ColA, ColB>>), WithColumns(RetriedState, <<ColA>>) }

\* state.get(key, default)
StateGet(st, key, default) == IF key \in DOMAIN st THEN st[key] ELSE default

\* variant: the state is unpacked last, so its stale fields win
NoBlocksResultStateWins(st) ==
    [k \in DOMAIN st \cup ResultKeys |->
        CASE k \in DOMAIN st -> st[k]
          [] k = "ambiguous_fields" -> EmptyList
          [] k = "column_map" -> EmptyDict
          [] OTHER -> <<>>]

\* variant: the failure path also clears the error log it was given
NoBlocksResultResetsLog(st) ==
    [k \in DOMAIN st \cup ResultKeys |->
        CASE k = "cleaning_code" -> <<>>
          [] k = "ambiguous_fields" -> EmptyList
          [] k = "column_map" -> EmptyDict
          [] k = "error_log" -> ""
          [] OTHER -> st[k]]

\* agents.py:218  {**state, "cleaning_code": "", "ambiguous_fields": [], "column_map": {}}
NoBlocksResult(st) ==
    [k \in DOMAIN st \cup ResultKeys |->
        CASE k = "cleaning_code" -> <<>>
          [] k = "ambiguous_fields" -> EmptyList
          [] k = "column_map" -> EmptyDict
          [] OTHER -> st[k]]

\* agents.py:263-267
NormalResult(code, af, cm) ==
    [cleaning_code |-> code, ambiguous_fields |-> af, column_map |-> cm]

NoResult == [pending |-> TRUE]

\* the graph writes a node's returned keys into the channels AgentState declares
Merge(channels, update) ==
    [k \in AgentStateKeys |-> IF k \in DOMAIN update THEN update[k] ELSE channels[k]]

(***************************************************************************)
(* Names offered to preprocess_column_names                                *)
(***************************************************************************)
Names == UNION { [1..n -> Alphabet] : n \in 0..MaxLen }

NamePool == { ColA, <<"a">>, <<" ", "A">>, ColB }

ColumnLists == UNION { [1..n -> NamePool] : n \in 0..MaxCols }

PreInputs == { <<nm>> : nm \in Names } \cup ColumnLists

(***************************************************************************)
(* Initial states                                                          *)
(***************************************************************************)
Blank ==
    /\ pre_cleaned = <<>>
    /\ cleaned_cols = <<>>
    /\ model_blocks = <<>>
    /\ raw_response = <<>>
    /\ code_blocks = <<>>
    /\ rename_code = <<>>
    /\ ambiguous_code = <<>>
    /\ ambiguous_fields = EmptyList
    /\ column_map = EmptyDict
    /\ result = NoResult
    /\ cleaner_runs = 0
    /\ executor_runs = 0

\* a run of the compiled graph (graph.py:24) on an input state
Init ==
    /\ state \in InputStates
    /\ graph_state = [k \in AgentStateKeys |-> state[k]]
    /\ node = "START"
    /\ pc = "idle"
    /\ Blank

\* a direct call of preprocess_column_names
InitPre ==
    /\ state \in { WithColumns(FreshState, cols) : cols \in PreInputs }
    /\ graph_state = FreshState
    /\ node = "none"
    /\ pc = "call"
    /\ Blank

(***************************************************************************)
(* preprocess_column_names called on its own                               *)
(***************************************************************************)
PreprocessCall ==
    /\ pc = "call"
    /\ pre_cleaned' = preprocess_column_names(state["df_columns"])
    /\ pc' = "called"
    /\ UNCHANGED <<state, cleaned_cols, model_blocks, raw_response, code_blocks, rename_code,
                   ambiguous_code, ambiguous_fields, column_map, result, node,
                   graph_state, cleaner_runs, executor_runs>>

(***************************************************************************)
(* field_standardization_agent, agents.py:119-267                          *)
(***************************************************************************)
\* graph.py:15  the entry point starts the cleaner on the input state
StartCleaner ==
    /\ node = "START"
    /\ node' = "cleaner"
    /\ cleaner_runs' = cleaner_runs + 1
    /\ pc' = "entry"
    /\ UNCHANGED <<state, pre_cleaned, cleaned_cols, model_blocks, raw_response, code_blocks,
                   rename_code, ambiguous_code, ambiguous_fields, column_map,
                   result, graph_state, executor_runs>>

\* agents.py:124-126
AgentPreprocess ==
    /\ pc = "entry"
    /\ pre_cleaned' = preprocess_column_names(StateGet(state, "df_columns", <<>>))
    /\ cleaned_cols' = DictValues(pre_cleaned')
    /\ pc' = "invoke"
    /\ UNCHANGED <<state, model_blocks, raw_response, code_blocks, rename_code, ambiguous_code,
                   ambiguous_fields, column_map, result, node, graph_state,
                   cleaner_runs, executor_runs>>

\* agents.py:204-210  the model call returns some text
InvokeReturns ==
    /\ pc = "invoke"
    /\ \E blocks \in BlockLists, framed \in BOOLEAN :
         /\ model_blocks' = blocks
         /\ raw_response' = Render(blocks, framed)
    /\ pc' = "parse"
    /\ UNCHANGED <<state, pre_cleaned, cleaned_cols, code_blocks, rename_code,
                   ambiguous_code, ambiguous_fields, column_map, result, node,
                   graph_state, cleaner_runs, executor_runs>>

\* agents.py:204  the model call raises (transport, auth, quota); nothing catches it
InvokeRaises ==
    /\ pc = "invoke"
    /\ pc' = "invoke_raised"
    /\ node' = "aborted"
    /\ UNCHANGED <<state, pre_cleaned, cleaned_cols, model_blocks, raw_response, code_blocks,
                   rename_code, ambiguous_code, ambiguous_fields, column_map,
                   result, graph_state, cleaner_runs, executor_runs>>

\* agents.py:213-218  no block left after trimming: the early return
ParseNoBlocks ==
    /\ pc = "parse"
    /\ ParseCodeBlocks(raw_response) = <<>>
    /\ code_blocks' = <<>>
    /\ result' = NoBlocksResult(state)
    /\ pc' = "returned"
    /\ UNCHANGED <<state, pre_cleaned, cleaned_cols, model_blocks, raw_response, rename_code,
                   ambiguous_code, ambiguous_fields, column_map, node,
                   graph_state, cleaner_runs, executor_runs>>

\* agents.py:213-221
ParseBlocks ==
    /\ pc = "parse"
    /\ ParseCodeBlocks(raw_response) /= <<>>
    /\ code_blocks' = ParseCodeBlocks(raw_response)
    /\ rename_code' = IF Len(code_blocks') >= 1 THEN code_blocks'[1] ELSE <<>>
    /\ ambiguous_code' = IF Len(code_blocks') >= 2 THEN code_blocks'[2] ELSE <<>>
    /\ pc' = "extract_ambiguous"
    /\ UNCHANGED <<state, pre_cleaned, cleaned_cols, model_blocks, raw_response, ambiguous_fields,
                   column_map, result, node, graph_state, cleaner_runs,
                   executor_runs>>

\* agents.py:223-231
ExtractAmbiguous ==
    /\ pc = "extract_ambiguous"
    /\ LET ev == EvalAmbiguous(ambiguous_code) IN
         /\ ambiguous_fields' = ev[2]
         /\ pc' = IF ev[1] THEN "raised" ELSE "extract_map"
         /\ node' = IF ev[1] THEN "aborted" ELSE node
    /\ UNCHANGED <<state, pre_cleaned, cleaned_cols, model_blocks, raw_response, code_blocks,
                   rename_code, ambiguous_code, column_map, result, graph_state,
                   cleaner_runs, executor_runs>>

\* variant: one handler for both evaluations, so a failing rename map also
\* throws away the ambiguous fields already extracted
ExtractRenameMapSharedHandler ==
    /\ pc = "extract_map"
    /\ LET ev == EvalRenameMap(rename_code)
           failed == rename_code /= <<>> /\ Exec(BeforeRenameCall(rename_code)).status /= "ok"
       IN
         /\ column_map' = ev[2]
         /\ ambiguous_fields' = IF failed THEN EmptyList ELSE ambiguous_fields
         /\ pc' = IF ev[1] THEN "raised" ELSE "report"
         /\ node' = IF ev[1] THEN "aborted" ELSE node
    /\ UNCHANGED <<state, pre_cleaned, cleaned_cols, model_blocks, raw_response, code_blocks,
                   rename_code, ambiguous_code, result,
                   graph_state, cleaner_runs, executor_runs>>

\* agents.py:233-242
ExtractRenameMap ==
    /\ pc = "extract_map"
    /\ LET ev == EvalRenameMap(rename_code) IN
         /\ column_map' = ev[2]
         /\ pc' = IF ev[1] THEN "raised" ELSE "report"
         /\ node' = IF ev[1] THEN "aborted" ELSE node
    /\ UNCHANGED <<state, pre_cleaned, cleaned_cols, model_blocks, raw_response, code_blocks,
                   rename_code, ambiguous_code, ambiguous_fields, result,
                   graph_state, cleaner_runs, executor_runs>>

\* agents.py:244-267  report, then return the three artifacts
ReportAndReturn ==
    /\ pc = "report"
    /\ IF ReportRaises(ambiguous_fields, column_map)
       THEN /\ pc' = "raised"
            /\ node' = "aborted"
            /\ UNCHANGED result
       ELSE /\ pc' = "returned"
            /\ result' = NormalResult(rename_code, ambiguous_fields, column_map)
            /\ UNCHANGED node
    /\ UNCHANGED <<state, pre_cleaned, cleaned_cols, model_blocks, raw_response, code_blocks,
                   rename_code, ambiguous_code, ambiguous_fields, column_map,
                   graph_state, cleaner_runs, executor_runs>>

(***************************************************************************)
(* graph.py:8-24  cleaner -> executor -> END                               *)
(***************************************************************************)
\* graph.py:18  the cleaner's update is merged and the executor starts
EdgeCleanerExecutor ==
    /\ node = "cleaner"
    /\ pc = "returned"
    /\ graph_state' = Merge(graph_state, result)
    /\ node' = "executor"
    /\ executor_runs' = executor_runs + 1
    /\ pc' = "left"
    /\ UNCHANGED <<state, pre_cleaned, cleaned_cols, model_blocks, raw_response, code_blocks,
                   rename_code, ambiguous_code, ambiguous_fields, column_map,
                   result, cleaner_runs>>

\* variant: an edge from the executor back to the entry point
ExecutorLoopsBack ==
    /\ node = "executor"
    /\ node' = "START"
    /\ UNCHANGED <<state, pc, pre_cleaned, cleaned_cols, model_blocks, raw_response, code_blocks,
                   rename_code, ambiguous_code, ambiguous_fields, column_map,
                   result, graph_state, cleaner_runs, executor_runs>>

\* graph.py:21  the executor returns and the run ends
ExecutorReturns ==
    /\ node = "executor"
    /\ node' = "END"
    /\ UNCHANGED <<state, pc, pre_cleaned, cleaned_cols, model_blocks, raw_response, code_blocks,
                   rename_code, ambiguous_code, ambiguous_fields, column_map,
                   result, graph_state, cleaner_runs, executor_runs>>

\* the executor raises: the run aborts
ExecutorRaises ==
    /\ node = "executor"
    /\ node' = "aborted"
    /\ UNCHANGED <<state, pc, pre_cleaned, cleaned_cols, model_blocks, raw_response, code_blocks,
                   rename_code, ambiguous_code, ambiguous_fields, column_map,
                   result, graph_state, cleaner_runs, executor_runs>>

Next ==
    \/ StartCleaner
    \/ AgentPreprocess
    \/ InvokeReturns
    \/ InvokeRaises
    \/ ParseNoBlocks
    \/ ParseBlocks
    \/ ExtractAmbiguous
    \/ ExtractRenameMap
    \/ ReportAndReturn
    \/ EdgeCleanerExecutor
    \/ ExecutorReturns
    \/ ExecutorRaises

Spec == Init /\ [][Next]_vars

NextPre == PreprocessCall

SpecPre == InitPre /\ [][NextPre]_vars

(***************************************************************************)
(* Properties                                                              *)
(***************************************************************************)
AgentReturned == pc \in {"returned", "left"}

\* the model call has returned a text
ModelAnswered == pc \in {"parse", "extract_ambiguous", "extract_map", "report",
                         "raised", "returned", "left"}

\* no language hint after the opening fence, or the hint python
PlainHint(hint) == hint \in { <<>>, <<"python">> }

RawColumns == StateGet(state, "df_columns", <<>>)

Range(seq) == { seq[i] : i \in 1..Len(seq) }

KeySet(d) == { d.val[i][1] : i \in 1..Len(d.val) }

FourKeys ==
    { <<"original_column">>, <<"candidates">>, <<"reason">>, <<"sample_values">> }

StrToStr(v) == v.kind = "dict" /\ \A i \in 1..Len(v.val) : v.val[i][2].kind = "str"

FullRecords(v) ==
    /\ v.kind = "list"
    /\ \A i \in 1..Len(v.val) : v.val[i].kind = "dict" /\ FourKeys \subseteq KeySet(v.val[i])

\* block 1 of the response format: rename_map = <str-to-str literal>, then the rename call
IsRenameBlock(b) ==
    /\ PlainHint(b[1])
    /\ LET t == Strip(b[2]) IN
         /\ Len(t) = 3
         /\ Binding(t[1]) /= <<>>
         /\ Binding(t[1])[1] = "rename_map"
         /\ StrToStr(Binding(t[1])[2])
         /\ t[2] = " "
         /\ t[3] = RenameCall

\* block 2 of the response format: ambiguous_fields = <list of four-key records>
IsAmbiguousBlock(b) ==
    /\ PlainHint(b[1])
    /\ LET t == Strip(b[2]) IN
         /\ Len(t) = 1
         /\ Binding(t[1]) /= <<>>
         /\ Binding(t[1])[1] = "ambiguous_fields"
         /\ FullRecords(Binding(t[1])[2])

\* the response is the compliant two-block response of the prompt (agents.py:173-194)
Compliant ==
    /\ Len(model_blocks) = 2
    /\ IsRenameBlock(model_blocks[1])
    /\ IsAmbiguousBlock(model_blocks[2])

\* the mapping literal the first block assigns to rename_map
RenameLiteral == Binding(Strip(model_blocks[1][2])[1])[2]

HasDuplicateValues(d) ==
    \E i, j \in 1..Len(d.val) : i /= j /\ d.val[i][2] = d.val[j][2]

\* C1: once the model call has returned, field_standardization_agent never
\* raises: every failure of extraction, evaluation or reporting is caught.
C1_NeverRaisesAfterModelCall == pc /= "raised"

\* every fenced block of the response is empty after trimming (none at all included)
OnlyBlankBlocks ==
    \A i \in 1..Len(model_blocks) :
        PlainHint(model_blocks[i][1]) /\ Strip(model_blocks[i][2]) = <<>>

RECURSIVE FirstAppearances(_)
FirstAppearances(cols) ==
    IF cols = <<>> THEN <<>>
    ELSE LET front == SubSeq(cols, 1, Len(cols) - 1)
             last == cols[Len(cols)]
         IN IF last \in Range(front) THEN FirstAppearances(front)
            ELSE Append(FirstAppearances(front), last)

\* C4 as stated: preprocess_column_names yields one entry per input element,
\* in input order, also when a raw name is repeated.
C4_OneEntryPerElement ==
    pc = "called" =>
        /\ Len(pre_cleaned) = Len(RawColumns)
        /\ DictKeys(pre_cleaned) = RawColumns

\* C4 amended: preprocess_column_names yields one entry per distinct raw
\* name, in order of first appearance, each holding that name's cleaned form;
\* entries whose cleaned names collide are kept apart.
C4_OneEntryPerDistinctName ==
    pc = "called" =>
        /\ Len(pre_cleaned) = Cardinality(Range(RawColumns))
        /\ DictKeys(pre_cleaned) = FirstAppearances(RawColumns)
        /\ \A i \in 1..Len(pre_cleaned) : pre_cleaned[i][2] = CleanName(pre_cleaned[i][1])

C4_Witness ==
    /\ pc = "called"
    /\ Len(pre_cleaned) < Len(RawColumns)
    /\ \E i, j \in 1..Len(pre_cleaned) : i /= j /\ pre_cleaned[i][2] = pre_cleaned[j][2]

\* removal of one alias prefix: the single-letter-dot one, else the word-dot one
StripOnePrefix(c) == IF SubLetterDot(c) /= c THEN SubLetterDot(c) ELSE SubWordDot(c)

\* C5: the cleaned name is the trimmed raw name with at most one alias prefix
\* removed (never two in sequence), trimmed again and lower-cased.
C5_AtMostOnePrefix ==
    (pc = "called" /\ Len(RawColumns) = 1) =>
        pre_cleaned[1][2] = Lower(Strip(StripOnePrefix(Strip(RawColumns[1]))))

\* C6: for a compliant two-block response the keys of column_map are exactly
\* the raw column names of df_columns, and every ambiguous_fields entry has
\* the four keys original_column, candidates, reason, sample_values.
C6_KeysEqualRawColumns ==
    (AgentReturned /\ Compliant) =>
        /\ KeySet(result["column_map"]) = Range(RawColumns)
        /\ FullRecords(result["ambiguous_fields"])

\* C7: for a compliant two-block response column_map is exactly the mapping
\* literal assigned to rename_map before the rename call, duplicate values
\* included; the agent neither rejects nor deduplicates it.
C7_MapPassedThrough ==
    (ModelAnswered /\ Compliant) =>
        /\ pc /= "raised"
        /\ AgentReturned => result["column_map"] = RenameLiteral

C7_Witness ==
    /\ pc = "returned"
    /\ Compliant
    /\ HasDuplicateValues(result["column_map"])

\* evaluation of the rename-map code raised an Exception
RenameEvalFailed ==
    rename_code /= <<>> /\ Exec(BeforeRenameCall(rename_code)).status = "exception"

\* evaluation of the ambiguous-fields block raised an Exception
AmbiguousEvalFailed ==
    ambiguous_code /= <<>> /\ Exec(ambiguous_code).status = "exception"

\* C8: degradation is per artifact: on the normal path cleaning_code is the
\* first block's text; a failed rename-map evaluation empties column_map
\* only, a failed ambiguous-fields evaluation empties ambiguous_fields only,
\* and each artifact is otherwise what its own block binds.
C8_PerArtifact ==
    (AgentReturned /\ code_blocks /= <<>>) =>
        /\ result["cleaning_code"] = code_blocks[1]
        /\ result["column_map"] =
              IF RenameEvalFailed THEN EmptyDict
              ELSE NsGet(Exec(BeforeRenameCall(rename_code)).ns, "rename_map", EmptyDict)
        /\ result["ambiguous_fields"] =
              IF AmbiguousEvalFailed \/ ambiguous_code = <<>> THEN EmptyList
              ELSE NsGet(Exec(ambiguous_code).ns, "ambiguous_fields", EmptyList)

C8_Witness ==
    /\ pc = "returned"
    /\ RenameEvalFailed
    /\ result["column_map"] = EmptyDict
    /\ result["ambiguous_fields"] = AF_FULL
    /\ result["cleaning_code"] /= <<>>

C9_Step ==
    /\ state' = state
    /\ pc' = "returned" => ResultKeys \subseteq DOMAIN result'
    /\ pc = "report" =>
         /\ UNCHANGED <<rename_code, ambiguous_fields, column_map>>
         /\ pc' = "returned" =>
              result' = NormalResult(rename_code, ambiguous_fields, column_map)
    /\ node' = "executor" =>
         \A k \in AgentStateKeys \ ResultKeys : graph_state'[k] = state[k]

\* C9: on every returning path the agent leaves its input state unmodified and
\* hands back cleaning_code, ambiguous_fields and column_map; the reporting
\* step changes none of them; every other pipeline-state field reaches the
\* executor with the value it had at stage entry.
C9_Frame == [][C9_Step]_vars

C9_Witness ==
    /\ node = "executor"
    /\ code_blocks = <<>>
    /\ graph_state["error_log"] = "previous failure"
    /\ graph_state["cleaning_code"] = <<>>

\* C10: the cleaner runs first and once, the executor once and only after the
\* cleaner returned, then the run ends; every returned result, degraded or
\* not, goes to the executor, and a raising cleaner leaves the executor unrun.
C10_Sequential ==
    /\ cleaner_runs <= 1
    /\ executor_runs <= 1
    /\ node \in {"cleaner", "executor", "END"} => cleaner_runs = 1
    /\ executor_runs = 1 => (pc = "left" /\ node \in {"executor", "END", "aborted"})
    /\ node = "executor" => executor_runs = 1
    /\ node = "END" => (executor_runs = 1 /\ ~ENABLED Next)
    /\ pc \in {"raised", "invoke_raised"} =>
          (executor_runs = 0 /\ node = "aborted" /\ ~ENABLED Next)
    /\ pc = "returned" => (node = "cleaner" /\ ENABLED EdgeCleanerExecutor)

C10_Witness ==
    /\ node = "END"
    /\ code_blocks = <<>>
    /\ result["cleaning_code"] = <<>>

====
